---- MODULE Spec2Model ----
(***************************************************************************)
(* Job orchestration of OurTube: the download registry, the semaphore that *)
(* bounds concurrent downloads, the asyncio tasks create_download starts   *)
(* (schedule_download, process_download), the worker thread that runs      *)
(* download_with_ydl and calls the DownloadProgress hook, and               *)
(* cancel_download.  Two entry modules ship with the repository,           *)
(* backend/main.py and backend/main_optimized.py; `program` says which one *)
(* is running.                                                             *)
(***************************************************************************)
EXTENDS Integers, Sequences, FiniteSets, TLC

\* ---------------------------------------------------------------- bounds
MaxJobs == 2                  \* create_download calls in one run
MaxRetriesInput == 1          \* largest max_retries a request carries
MaxFailures == 2              \* Extractor errors in one run
MaxCancels == 1               \* cancel_download calls in one run
MaxStored == 3                \* jobs of a registry the History Store is given
MaxStamp == 2                 \* latest created_at of such a job
MaxSavers == 2                \* save_download_history tasks alive at once
MaxBoots == 2                 \* restarts of the process in one run
MaxClock == 3                 \* the clock of the cache scenario stops here
MaxEvents == 2                \* broadcasts in one run of the broadcast scenario
MaxDrops == 1                 \* sockets that break in one run

\* ------------------------------------------------------ program constants
\* MAX_CONCURRENT_DOWNLOADS is read from the environment (default "3"); the
\* model runs the deployment with one slot
MAX_CONCURRENT_DOWNLOADS == 1
\* MAX_HISTORY_SIZE is read from the environment (default "1000"); the model
\* keeps two records
MAX_HISTORY_SIZE == 2
\* the fallback of `request.max_retries or 3`
\* main.py's cache_max_age is 3600 seconds and cache_max_size is 100; the
\* model counts time in units of half a TTL and keeps a capacity of 2
cache_max_age == 2
cache_max_size == 2

DEFAULT_MAX_RETRIES == 3

\* the intake test of main_optimized.py rejects above this many queued jobs
BacklogLimit == MAX_CONCURRENT_DOWNLOADS * 2
\* jobs of a burst: one more than the intake test can let through
BurstJobs == BacklogLimit + 2

Ids == 1..(IF MaxJobs > BurstJobs THEN MaxJobs ELSE BurstJobs)
NULL == "null"

\* the sockets that connect to /ws and the events broadcast, in the order
\* their broadcasts are started
Subscribers == {"s1", "s2", "s3"}
Events == 1..MaxEvents
IdleBroadcast == [pc |-> "none", connections |-> <<>>, idx |-> 0, cur |-> "none",
                  raised |-> FALSE, disconnected |-> {}]

\* no attempt of the job has built its options yet
NoOpts == [outdir |-> "none", format |-> "none", postprocessors |-> FALSE]

\* the directories set_download_directory is given
Dirs == {"d0", "d1"}

\* the URLs get_video_info is asked for and the metadata the Extractor returns
Urls == {"u1", "u2", "u3"}
Infos == {"info1", "info2"}
NoReply == [url |-> "none", source |-> "none", data |-> "none"]
\* an Optional[datetime] field: None, or a datetime object of instant t
None == <<>>
Datetime(t) == <<"datetime", t>>
Instant(d) == d[2]
Programs == {"main", "optimized"}
Terminal == {"completed", "failed", "cancelled"}
Running == {"downloading", "processing"}

VARIABLES
    program,           \* which entry module runs: "main" | "optimized"
    downloads,         \* the registry: id -> DownloadStatus record
    request,           \* id -> the DownloadRequest its tasks were started with (main.py)
    task,              \* id -> position of the job's asyncio task
    waiters,           \* tasks waiting for download_semaphore, in arrival order
    sem_value,         \* download_semaphore._value (free slots)
    active_downloads,  \* the global counter
    worker,            \* id -> state of the executor thread of the current attempt
    zombies,           \* id -> executor threads abandoned by a timed-out wait_for
    failures,          \* id -> attempts of the job that ended in an Extractor error
    last_cancel,       \* the last cancel_download call: <<id, response message>>
    cancels,           \* number of cancel_download calls so far
    now,               \* the wall clock, in ticks
    timer,             \* id -> the scheduled_time argument of its schedule_download task
    wake,              \* id -> the instant at which that task's asyncio.sleep ends
    last_create,       \* the last create_download response: <<id, status>>
    order,             \* the ids of the registry in dict insertion order
    disk,              \* the file HISTORY_FILE
    tmp,               \* the file HISTORY_FILE.tmp (main_optimized.py)
    saver,             \* id -> a save_download_history execution in progress
    boots,             \* how often the process was started again
    video_info_cache,  \* main.py's cache, in insertion order: [key, data, timestamp]
    lookup,            \* url -> position of the get_video_info request for it
    reply,             \* what get_video_info returned last
    FFMPEG_AVAILABLE,  \* the result of the last ffmpeg check
    DOWNLOAD_DIR,      \* the global download directory
    ydl_opts,          \* id -> the options its last attempt handed to yt-dlp
    active_connections,\* manager.active_connections, in list order
    bcast,             \* event -> the broadcast coroutine that sends it
    inbox,             \* subscriber -> the events written to its socket, in order
    dead               \* the subscribers whose socket raises on send

vars == <<program, downloads, request, task, waiters, sem_value,
          active_downloads, worker, zombies, failures, last_cancel, cancels,
          now, timer, wake, last_create, order, disk, tmp, saver, boots,
          video_info_cache, lookup, reply,
          FFMPEG_AVAILABLE, DOWNLOAD_DIR, ydl_opts,
          active_connections, bcast, inbox, dead>>

\* the global configuration and the options each attempt was started with
confvars == <<FFMPEG_AVAILABLE, DOWNLOAD_DIR, ydl_opts>>

\* the ConnectionManager, its broadcasts in flight and what the sockets got
wsvars == <<active_connections, bcast, inbox, dead>>

\* the variables of the metadata cache
cachevars == <<video_info_cache, lookup, reply>>

\* the variables of the History Store
storevars == <<order, disk, tmp, saver, boots>>

Created == DOMAIN downloads

\* request.scheduled_time as create_download classifies it
ScheduleKinds == {"none", "future"}
RetryInputs == (-1)..MaxRetriesInput

\* DownloadRequest fields the orchestration reads (main.py)
DownloadRequest == [audio_only : {FALSE}, format_id : {FALSE}, quality : {FALSE},
                    auto_retry : BOOLEAN,
                    max_retries : RetryInputs,
                    scheduled_time : ScheduleKinds]

\* the requests of the retry scenarios: auto_retry on, a retry limit, no schedule
RetryRequests == [audio_only : {FALSE}, format_id : {FALSE}, quality : {FALSE},
                  auto_retry : {TRUE},
                  max_retries : 0..MaxRetriesInput,
                  scheduled_time : {"none"}]

\* requests that take every exit of process_download (retry once, then give up)
SlotRequests == [audio_only : {FALSE}, format_id : {FALSE}, quality : {FALSE},
                 auto_retry : {TRUE},
                 max_retries : {1},
                 scheduled_time : ScheduleKinds]

\* requests with every kind of scheduled_time: absent, unparseable, not after
\* the arrival instant, after it
ScheduleRequests == [audio_only : {FALSE}, format_id : {FALSE}, quality : {FALSE},
                     auto_retry : {TRUE},
                     max_retries : {1},
                     scheduled_time : {"none", "invalid", "past", "future"}]

\* Python's `x or d` on an int: 0 is falsy
PyOr(x, d) == IF x = 0 THEN d ELSE x

RECURSIVE SumOver(_, _)
SumOver(f, S) == IF S = {} THEN 0
                 ELSE LET x == CHOOSE x \in S : TRUE IN f[x] + SumOver(f, S \ {x})

\* the run may create another job
MoreJobs == Cardinality(DOMAIN downloads) < MaxJobs

\* the Extractor may still fail: the run's budget of errors is not used up
MayFail == SumOver(failures, Ids) < MaxFailures

\* ---------------------------------------------------------- History Store
\* a file: whether it exists, the records written to it so far, and whether
\* the text is a complete JSON array
AbsentFile == [exists |-> FALSE, items |-> <<>>, closed |-> FALSE]
File(items, closed) == [exists |-> TRUE, items |-> items, closed |-> closed]
EmptyFile == File(<<>>, FALSE)

\* no save_download_history execution
IdleSaver == [pc |-> "idle", data |-> <<>>, handle |-> "none"]

\* datetime.isoformat and datetime.fromisoformat; any other string raises
IsoFormat(d) == <<"iso", Instant(d)>>
IsIso(v) == v # None /\ v[1] = "iso"
FromIsoFormat(v) == Datetime(v[2])

\* item.model_dump(): the record's fields with its id
model_dump(reg, j) == ("id" :> j) @@ reg[j]

\* the dict save_download_history appends for job j: created_at and
\* completed_at as ISO strings when set, every other field as dumped
item_dict(reg, j) ==
    LET d == model_dump(reg, j)
    IN  [d EXCEPT !.created_at = IF @ # None THEN IsoFormat(@) ELSE @,
                  !.completed_at = IF @ # None THEN IsoFormat(@) ELSE @]

\* list.sort(key=created_at, reverse=True): stable, newest first
RECURSIVE SortNewestFirst(_, _)
SortNewestFirst(reg, ids) ==
    IF ids = <<>> THEN <<>>
    ELSE LET j == ids[Len(ids)]
             sorted == SortNewestFirst(reg, SubSeq(ids, 1, Len(ids) - 1))
             at == Instant(reg[j].created_at)
         IN  SelectSeq(sorted, LAMBDA k : Instant(reg[k].created_at) >= at)
             \o <<j>>
             \o SelectSeq(sorted, LAMBDA k : Instant(reg[k].created_at) < at)

\* history_data of save_download_history for registry reg in dict order ids
history_data(reg, ids) ==
    LET sorted == SortNewestFirst(reg, ids)
        history_list == SubSeq(sorted, 1,
                           IF Len(sorted) < MAX_HISTORY_SIZE
                              THEN Len(sorted) ELSE MAX_HISTORY_SIZE)
    IN  [i \in 1..Len(history_list) |-> item_dict(reg, history_list[i])]

\* json can encode the dict: no field still holds a datetime object
JsonEncodable(item) ==
    \A f \in {"created_at", "completed_at", "scheduled_time"} \cap DOMAIN item :
       item[f] = None \/ item[f][1] # "datetime"

\* index of the first dict json cannot encode, 0 when there is none
FirstBad(data) ==
    IF \A i \in 1..Len(data) : JsonEncodable(data[i]) THEN 0
    ELSE CHOOSE i \in 1..Len(data) :
            /\ ~JsonEncodable(data[i])
            /\ \A k \in 1..(i - 1) : JsonEncodable(data[k])

\* main.py: `with open(HISTORY_FILE, 'w')` and json.dump, run to their end:
\* the encoder writes record by record and stops at the first TypeError
JsonDump(data) ==
    IF FirstBad(data) = 0 THEN File(data, TRUE)
    ELSE File(SubSeq(data, 1, FirstBad(data) - 1), FALSE)

\* a string that is no ISO timestamp
BadString == <<"str">>

\* the fields DownloadStatus fills in when the stored dict lacks them
Defaults(prog) ==
    IF prog = "main"
       THEN [error |-> NULL, completed_at |-> None, scheduled_time |-> None,
             retry_count |-> 0, max_retries |-> 3, progress |-> 0]
       ELSE [error |-> NULL, completed_at |-> None, progress |-> 0]

\* load_download_history raises on the dict: fromisoformat of created_at or
\* of a set completed_at fails
Malformed(item) ==
    \/ ~IsIso(item.created_at)
    \/ item.completed_at # None /\ ~IsIso(item.completed_at)

\* DownloadStatus(**item) after the two conversions; the model validates an
\* ISO string in any other datetime field into a datetime
FromItem(prog, item) ==
    [f \in DOMAIN item \ {"id"} |->
        IF f \in {"created_at", "completed_at", "scheduled_time"} /\ IsIso(item[f])
           THEN FromIsoFormat(item[f]) ELSE item[f]]
    @@ Defaults(prog)

\* the loop of load_download_history from record i on: it stores record
\* after record and stops at the first that raises
RECURSIVE LoadItems(_, _, _, _)
LoadItems(prog, items, i, acc) ==
    IF i > Len(items) \/ Malformed(items[i]) THEN acc
    ELSE LET id == items[i].id
         IN  LoadItems(prog, items, i + 1,
                [reg |-> (id :> FromItem(prog, items[i])) @@
                            [k \in DOMAIN acc.reg \ {id} |-> acc.reg[k]],
                 ids |-> IF id \in DOMAIN acc.reg THEN acc.ids
                         ELSE Append(acc.ids, id)])

\* load_download_history into the empty registry of a fresh process: nothing
\* for a missing file or one json cannot parse
load_download_history(prog, file) ==
    IF ~file.exists \/ ~file.closed THEN [reg |-> <<>>, ids |-> <<>>]
    ELSE LoadItems(prog, file.items, 1, [reg |-> <<>>, ids |-> <<>>])

\* main.py's save_download_history as one call on the event loop
save_download_history == disk' = JsonDump(history_data(downloads, order))

Init ==
    /\ program \in Programs
    /\ downloads = <<>>
    /\ request = <<>>
    /\ task = [j \in Ids |-> "none"]
    /\ waiters = <<>>
    /\ sem_value = MAX_CONCURRENT_DOWNLOADS
    /\ active_downloads = 0
    /\ worker = [j \in Ids |-> "none"]
    /\ zombies = [j \in Ids |-> 0]
    /\ failures = [j \in Ids |-> 0]
    /\ last_cancel = <<>>
    /\ cancels = 0
    /\ now = 0
    /\ timer = [j \in Ids |-> 0]
    /\ wake = [j \in Ids |-> 0]
    /\ last_create = <<>>
    /\ order = <<>>
    /\ disk = AbsentFile
    /\ tmp = AbsentFile
    /\ saver = [s \in Ids |-> IdleSaver]
    /\ boots = 0
    /\ video_info_cache = <<>>
    /\ lookup = [u \in Urls |-> "none"]
    /\ reply = NoReply
    /\ FFMPEG_AVAILABLE = TRUE
    /\ DOWNLOAD_DIR = "d0"
    /\ ydl_opts = [j \in Ids |-> NoOpts]
    /\ active_connections = <<>>
    /\ bcast = [b \in Events |-> IdleBroadcast]
    /\ inbox = [c \in Subscribers |-> <<>>]
    /\ dead = {}

\* a faulty exit that decrements the counter and keeps the semaphore slot
ReleaseSlot_CounterOnly ==
    /\ active_downloads' = active_downloads - 1
    /\ UNCHANGED sem_value

\* `finally: active_downloads -= 1` and the exit of `async with download_semaphore`
ReleaseSlot ==
    /\ active_downloads' = active_downloads - 1
    /\ sem_value' = sem_value + 1

\* ------------------------------------------------------------- main.py
\* datetime.fromisoformat on request.scheduled_time for a request that arrives
\* now: a datetime, or None when the field is empty or raises ValueError
FromIso(kind) ==
    CASE kind = "future" -> Datetime(now + 1)
      [] kind = "past" -> Datetime(now)
      [] OTHER -> None

create_download(req) ==
    LET download_id == Cardinality(Created) + 1
        scheduled_time == FromIso(req.scheduled_time)
        initial_status == IF scheduled_time # None /\ Instant(scheduled_time) > now
                             THEN "scheduled" ELSE "queued"
        download_status ==
            [status |-> initial_status,
             error |-> NULL,
             created_at |-> Datetime(now),
             completed_at |-> None,
             scheduled_time |-> scheduled_time,
             max_retries |-> PyOr(req.max_retries, DEFAULT_MAX_RETRIES),
             retry_count |-> 0,
             progress |-> 0]
    IN  /\ program = "main"
        /\ download_id \in Ids
        /\ downloads' = (download_id :> download_status) @@ downloads
        /\ request' = (download_id :> req) @@ request
        /\ IF initial_status = "scheduled"
              THEN /\ task' = [task EXCEPT ![download_id] = "sched_start"]
                   /\ timer' = [timer EXCEPT ![download_id] = Instant(scheduled_time)]
                   /\ UNCHANGED waiters
              ELSE /\ task' = [task EXCEPT ![download_id] = "acquire"]
                   /\ waiters' = Append(waiters, download_id)
                   /\ UNCHANGED timer
        /\ last_create' = <<download_id, initial_status>>
        /\ order' = Append(order, download_id)
        /\ UNCHANGED <<program, cachevars, confvars, wsvars, disk, tmp, saver, boots, now, wake, sem_value,
                       active_downloads, worker, zombies, failures, last_cancel,
                       cancels>>

\* schedule_download from the status test after the sleep to its next await
schedule_fire(j) ==
    IF downloads[j].status = "scheduled"
       THEN /\ downloads' = [downloads EXCEPT ![j].status = "queued"]
            /\ task' = [task EXCEPT ![j] = "sched_bcast"]
       ELSE /\ task' = [task EXCEPT ![j] = "done"]
            /\ UNCHANGED downloads

\* a faulty schedule_download that does not sleep
schedule_start_NoSleep(j) ==
    /\ program = "main"
    /\ task[j] = "sched_start"
    /\ schedule_fire(j)
    /\ UNCHANGED <<program, cachevars, confvars, wsvars, storevars, now, timer, wake, last_create, request, waiters, sem_value,
                   active_downloads, worker, zombies, failures, last_cancel, cancels>>

\* schedule_download from its first line: wait_seconds, then the sleep if positive
schedule_start(j) ==
    LET wait_seconds == timer[j] - now
    IN  /\ program = "main"
        /\ task[j] = "sched_start"
        /\ IF wait_seconds > 0
              THEN /\ task' = [task EXCEPT ![j] = "sleep"]
                   /\ wake' = [wake EXCEPT ![j] = now + wait_seconds]
                   /\ UNCHANGED downloads
              ELSE /\ schedule_fire(j)
                   /\ UNCHANGED wake
        /\ UNCHANGED <<program, cachevars, confvars, wsvars, storevars, now, timer, last_create, request, waiters, sem_value,
                       active_downloads, worker, zombies, failures, last_cancel, cancels>>

\* schedule_download when asyncio.sleep(wait_seconds) is over
schedule_download(j) ==
    /\ program = "main"
    /\ task[j] = "sleep"
    /\ now >= wake[j]
    /\ schedule_fire(j)
    /\ UNCHANGED <<program, cachevars, confvars, wsvars, storevars, now, timer, wake, last_create, request, waiters, sem_value,
                   active_downloads, worker, zombies, failures, last_cancel, cancels>>

\* the clock advances; only a pending timer reads it
time_passes ==
    /\ \E j \in Created : task[j] \in {"sched_start", "sleep"} /\ timer[j] > now
    /\ now' = now + 1
    /\ UNCHANGED <<program, cachevars, confvars, wsvars, storevars, downloads, request, task, waiters, sem_value,
                   active_downloads, worker, zombies, failures, last_cancel, cancels,
                   timer, wake, last_create>>

\* schedule_download after the broadcast: `await process_download(...)`
schedule_process(j) ==
    /\ program = "main"
    /\ task[j] = "sched_bcast"
    /\ task' = [task EXCEPT ![j] = "acquire"]
    /\ waiters' = Append(waiters, j)
    /\ UNCHANGED <<program, cachevars, confvars, wsvars, storevars, now, timer, wake, last_create, downloads, request, sem_value, active_downloads, worker,
                   zombies, failures, last_cancel, cancels>>

\* a faulty process_download that does not wait for the semaphore
process_acquire_NoSemaphore(j) ==
    /\ program = "main"
    /\ task[j] = "acquire"
    /\ waiters # <<>> /\ Head(waiters) = j
    /\ waiters' = Tail(waiters)
    /\ IF downloads[j].status = "cancelled"
          THEN /\ task' = [task EXCEPT ![j] = "done"]
               /\ UNCHANGED <<downloads, sem_value, active_downloads>>
          ELSE /\ downloads' = [downloads EXCEPT ![j].status = "downloading"]
               /\ task' = [task EXCEPT ![j] = "start_bcast"]
               /\ sem_value' = sem_value - 1
               /\ active_downloads' = active_downloads + 1
    /\ UNCHANGED <<program, cachevars, confvars, wsvars, storevars, now, timer, wake, last_create, request, worker, zombies, failures, last_cancel, cancels>>

\* process_download from `async with download_semaphore` to the first broadcast
process_acquire(j) ==
    /\ program = "main"
    /\ task[j] = "acquire"
    /\ waiters # <<>> /\ Head(waiters) = j
    /\ sem_value > 0
    /\ waiters' = Tail(waiters)
    /\ IF downloads[j].status = "cancelled"
          THEN \* return: the finally block and the semaphore exit run at once
               /\ task' = [task EXCEPT ![j] = "done"]
               /\ UNCHANGED <<downloads, sem_value, active_downloads>>
          ELSE /\ downloads' = [downloads EXCEPT ![j].status = "downloading"]
               /\ task' = [task EXCEPT ![j] = "start_bcast"]
               /\ sem_value' = sem_value - 1
               /\ active_downloads' = active_downloads + 1
    /\ UNCHANGED <<program, cachevars, confvars, wsvars, storevars, now, timer, wake, last_create, request, worker, zombies, failures, last_cancel, cancels>>

\* DownloadProgress.__call__, the cancellation check at its top (worker thread)
hook_check(j, phase) ==
    /\ program = "main"
    /\ worker[j] = "running"
    /\ worker' = [worker EXCEPT ![j] =
                    IF downloads[j].status = "cancelled" THEN "raised_cancelled"
                    ELSE phase]
    /\ UNCHANGED <<program, cachevars, confvars, wsvars, storevars, now, timer, wake, last_create, downloads, request, task, waiters, sem_value,
                   active_downloads, zombies, failures, last_cancel, cancels>>

\* the samples yt-dlp hands to the hook; 0 stands for a key that is absent,
\* None or 0, which d.get(...) or 0 and the defaults make the same
Samples ==
    [total_bytes : {0, 2}, total_bytes_estimate : {0, 4},
     downloaded_bytes : {-1, 1, 3}, fragment_index : {0, 1, 3},
     fragment_count : {0, 2}]

\* the one sample the job scenarios report: half of a known total
JobSamples ==
    {[total_bytes |-> 2, total_bytes_estimate |-> 0, downloaded_bytes |-> 1,
      fragment_index |-> 0, fragment_count |-> 0]}

\* min(100.0, x) of the first branch
Min100(x) == IF x > 100 THEN 100 ELSE x

\* the progress DownloadProgress.__call__ computes from a sample, in whole
\* percent
Progress(d) ==
    LET total == IF d.total_bytes # 0 THEN d.total_bytes ELSE d.total_bytes_estimate
        downloaded == d.downloaded_bytes
    IN  IF total > 0 /\ downloaded >= 0
           THEN Min100((downloaded * 100) \div total)
           ELSE IF d.fragment_count > 0
                   THEN (d.fragment_index * 100) \div d.fragment_count
                   ELSE 0

\* DownloadProgress.__call__, the writes after that test (worker thread)
hook_write(j, d) ==
    /\ program = "main"
    /\ worker[j] \in {"hook_downloading", "hook_finished"}
    /\ downloads' = IF worker[j] = "hook_finished"
                       THEN [downloads EXCEPT ![j].status = "processing"]
                       ELSE [downloads EXCEPT ![j].progress = Progress(d)]
    /\ worker' = [worker EXCEPT ![j] = "running"]
    /\ UNCHANGED <<program, cachevars, confvars, wsvars, storevars, now, timer, wake, last_create, request, task, waiters, sem_value, active_downloads,
                   zombies, failures, last_cancel, cancels>>

\* download_with_ydl returns normally (worker thread)
worker_returns(j) ==
    /\ worker[j] = "running"
    /\ worker' = [worker EXCEPT ![j] = "returned"]
    /\ UNCHANGED <<program, cachevars, confvars, wsvars, storevars, now, timer, wake, last_create, downloads, request, task, waiters, sem_value,
                   active_downloads, zombies, failures, last_cancel, cancels>>

\* download_with_ydl raises an Extractor error (worker thread)
worker_raises(j) ==
    /\ worker[j] = "running"
    /\ MayFail
    /\ worker' = [worker EXCEPT ![j] = "raised"]
    /\ failures' = [failures EXCEPT ![j] = @ + 1]
    /\ UNCHANGED <<program, cachevars, confvars, wsvars, storevars, now, timer, wake, last_create, downloads, request, task, waiters, sem_value,
                   active_downloads, zombies, last_cancel, cancels>>

\* a faulty retry decision that stops one retry early
ShouldRetry_OffByOne(j) ==
    /\ request[j].auto_retry
    /\ downloads[j].retry_count < PyOr(downloads[j].max_retries, 0) - 1

\* the retry decision of `except Exception`
ShouldRetry(j) ==
    /\ request[j].auto_retry
    /\ downloads[j].retry_count < PyOr(downloads[j].max_retries, 0)

\* `except Exception` of process_download up to its first await or its exit
handle_exception(j) ==
    IF downloads[j].status # "cancelled"
       THEN IF ShouldRetry(j)
               THEN /\ downloads' = [downloads EXCEPT ![j].retry_count = @ + 1,
                                                      ![j].status = "retrying"]
                    /\ task' = [task EXCEPT ![j] = "retry_sleep"]
                    /\ UNCHANGED <<sem_value, active_downloads, disk>>
               ELSE /\ downloads' = [downloads EXCEPT ![j].status = "failed",
                                                      ![j].error = "set"]
                    /\ task' = [task EXCEPT ![j] = "end_bcast"]
                    /\ UNCHANGED <<sem_value, active_downloads, disk>>
       ELSE \* nothing awaited: save_download_history, finally, exit
            /\ task' = [task EXCEPT ![j] = "done"]
            /\ save_download_history
            /\ ReleaseSlot
            /\ UNCHANGED downloads

\* get_ydl_opts raised "Audio-only downloads require ffmpeg to be installed"
RaisedOpts == [outdir |-> "none", format |-> "raised", postprocessors |-> FALSE]

\* get_ydl_opts: the output directory and the format branch; the ffmpeg test
\* sits in the audio_only branch, which comes third
get_ydl_opts(req) ==
    CASE req.format_id ->
            [outdir |-> DOWNLOAD_DIR, format |-> "format_id", postprocessors |-> FALSE]
      [] ~req.format_id /\ req.quality /\ ~req.audio_only ->
            [outdir |-> DOWNLOAD_DIR, format |-> "quality", postprocessors |-> FALSE]
      [] ~req.format_id /\ ~(req.quality /\ ~req.audio_only) /\ req.audio_only ->
            IF ~FFMPEG_AVAILABLE THEN RaisedOpts
            ELSE [outdir |-> DOWNLOAD_DIR, format |-> "bestaudio/best",
                  postprocessors |-> TRUE]
      [] OTHER ->
            [outdir |-> DOWNLOAD_DIR, format |-> "best", postprocessors |-> FALSE]

\* process_download after the "downloading" broadcast: get_ydl_opts, then
\* run_in_executor, or the exception handler when get_ydl_opts raises
process_start(j) ==
    LET opts == get_ydl_opts(request[j])
    IN  /\ program = "main"
        /\ task[j] = "start_bcast"
        /\ IF opts = RaisedOpts
              THEN /\ handle_exception(j)
                   /\ UNCHANGED <<worker, ydl_opts>>
              ELSE /\ task' = [task EXCEPT ![j] = "executor"]
                   /\ worker' = [worker EXCEPT ![j] = "running"]
                   /\ ydl_opts' = [ydl_opts EXCEPT ![j] = opts]
                   /\ UNCHANGED <<downloads, sem_value, active_downloads, disk>>
        /\ UNCHANGED <<program, cachevars, wsvars, FFMPEG_AVAILABLE, DOWNLOAD_DIR,
                       order, tmp, saver, boots, now, timer, wake, last_create,
                       request, waiters, zombies, failures, last_cancel, cancels>>

\* set_download_directory: the global directory is replaced
set_download_directory(dir) ==
    /\ program = "main"
    /\ DOWNLOAD_DIR' = dir
    /\ UNCHANGED <<program, cachevars, wsvars, storevars, FFMPEG_AVAILABLE, ydl_opts,
                   now, timer, wake, last_create, downloads, request, task, waiters,
                   sem_value, active_downloads, worker, zombies, failures,
                   last_cancel, cancels>>

\* restart_application: check_ffmpeg_on_startup runs again and finds ffmpeg
\* or not
restart_application(found) ==
    /\ program = "main"
    /\ FFMPEG_AVAILABLE' = found
    /\ UNCHANGED <<program, cachevars, wsvars, storevars, DOWNLOAD_DIR, ydl_opts,
                   now, timer, wake, last_create, downloads, request, task, waiters,
                   sem_value, active_downloads, worker, zombies, failures,
                   last_cancel, cancels>>

\* process_download when the executor future is done, up to its next await
process_result(j) ==
    /\ program = "main"
    /\ task[j] = "executor"
    /\ worker[j] \in {"returned", "raised", "raised_cancelled"}
    /\ worker' = [worker EXCEPT ![j] = "none"]
    /\ CASE worker[j] = "returned" ->
              IF downloads[j].status = "cancelled"
                 THEN \* broadcast, then return without a save
                      /\ task' = [task EXCEPT ![j] = "end_return"]
                      /\ UNCHANGED <<downloads, sem_value, active_downloads, disk>>
                 ELSE /\ downloads' = [downloads EXCEPT ![j].status = "completed",
                                                        ![j].completed_at = Datetime(now),
                                                        ![j].progress = 100]
                      /\ task' = [task EXCEPT ![j] = "end_bcast"]
                      /\ UNCHANGED <<sem_value, active_downloads, disk>>
         [] worker[j] = "raised_cancelled" ->
              /\ downloads' = [downloads EXCEPT ![j].status = "cancelled"]
              /\ task' = [task EXCEPT ![j] = "end_bcast"]
              /\ UNCHANGED <<sem_value, active_downloads, disk>>
         [] worker[j] = "raised" ->
              handle_exception(j)
    /\ UNCHANGED <<program, cachevars, confvars, wsvars, order, tmp, saver, boots, now, timer, wake, last_create,
                   request, waiters, zombies, failures, last_cancel, cancels>>

\* the retry branch after broadcast and asyncio.sleep(5): a new task, then finally
process_retry(j) ==
    /\ program = "main"
    /\ task[j] = "retry_sleep"
    /\ task' = [task EXCEPT ![j] = "acquire"]
    /\ waiters' = Append(waiters, j)
    /\ ReleaseSlot
    /\ UNCHANGED <<program, cachevars, confvars, wsvars, storevars, now, timer, wake, last_create, downloads, request, worker, zombies, failures, last_cancel, cancels>>

\* process_download after its last broadcast: the save if the branch has
\* one, finally, semaphore exit
process_end(j) ==
    /\ task[j] \in {"end_bcast", "end_return"}
    /\ task' = [task EXCEPT ![j] = "done"]
    /\ CASE task[j] = "end_return" -> UNCHANGED <<disk, saver>>
         [] task[j] = "end_bcast" /\ program = "main" ->
              save_download_history /\ UNCHANGED saver
         [] task[j] = "end_bcast" /\ program = "optimized" ->
              \* asyncio.create_task(save_download_history())
              /\ saver' = [saver EXCEPT ![j] = [IdleSaver EXCEPT !.pc = "start"]]
              /\ UNCHANGED disk
    /\ ReleaseSlot
    /\ UNCHANGED <<program, cachevars, confvars, wsvars, order, tmp, boots, now, timer, wake, last_create,
                   downloads, request, waiters, worker, zombies, failures,
                   last_cancel, cancels>>

\* a faulty cancel that also cancels a job between two attempts
cancel_download_Retrying(j) ==
    /\ cancels < MaxCancels
    /\ cancels' = cancels + 1
    /\ CASE j \notin Created ->
              /\ last_cancel' = <<j, "404 Download not found">>
              /\ UNCHANGED downloads
         [] j \in Created /\ downloads[j].status \in {"downloading", "queued", "retrying"} ->
              /\ downloads' = [downloads EXCEPT ![j].status = "cancelled"]
              /\ last_cancel' = <<j, "Download cancelled">>
         [] OTHER ->
              /\ last_cancel' = <<j, "Cannot cancel completed download">>
              /\ UNCHANGED downloads
    /\ UNCHANGED <<program, cachevars, confvars, wsvars, storevars, now, timer, wake, last_create, request, task, waiters, sem_value, active_downloads,
                   worker, zombies, failures>>

\* cancel_download (the same code in both entry modules); an id that is not
\* in the registry gets the 404
cancel_download(j) ==
    /\ cancels < MaxCancels
    /\ cancels' = cancels + 1
    /\ CASE j \notin Created ->
              /\ last_cancel' = <<j, "404 Download not found">>
              /\ UNCHANGED downloads
         [] j \in Created /\ downloads[j].status \in {"downloading", "queued"} ->
              /\ downloads' = [downloads EXCEPT ![j].status = "cancelled"]
              /\ last_cancel' = <<j, "Download cancelled">>
         [] OTHER ->
              /\ last_cancel' = <<j, "Cannot cancel completed download">>
              /\ UNCHANGED downloads
    /\ UNCHANGED <<program, cachevars, confvars, wsvars, storevars, now, timer, wake, last_create, request, task, waiters, sem_value, active_downloads,
                   worker, zombies, failures>>

\* ---------------------------------------------------- main_optimized.py
QueuedCount == Cardinality({j \in Created : downloads[j].status = "queued"})

\* the intake check: 503 when at capacity and the backlog is over twice the bound
QueueFull ==
    /\ active_downloads >= MAX_CONCURRENT_DOWNLOADS
    /\ QueuedCount > BacklogLimit

\* the optimized DownloadStatus has no scheduling or retry fields
opt_create_download ==
    LET download_id == Cardinality(Created) + 1
        download_status ==
            [status |-> "queued", error |-> NULL, created_at |-> Datetime(now),
             completed_at |-> None, progress |-> 0]
    IN  /\ program = "optimized"
        /\ download_id \in Ids
        /\ ~QueueFull
        /\ downloads' = (download_id :> download_status) @@ downloads
        /\ task' = [task EXCEPT ![download_id] = "acquire"]
        /\ waiters' = Append(waiters, download_id)
        /\ last_create' = <<download_id, "queued">>
        /\ order' = Append(order, download_id)
        /\ UNCHANGED <<program, cachevars, confvars, wsvars, disk, tmp, saver, boots, now, timer, wake, request,
                       sem_value, active_downloads, worker, zombies, failures,
                       last_cancel, cancels>>

\* create_download answering 503: no record, no task
opt_create_rejected ==
    /\ program = "optimized"
    /\ QueueFull
    /\ last_create' = <<0, "503">>
    /\ UNCHANGED <<program, cachevars, confvars, wsvars, storevars, now, timer, wake, downloads, request, task, waiters,
                   sem_value, active_downloads, worker, zombies, failures,
                   last_cancel, cancels>>

\* process_download from the semaphore to the first broadcast: no cancellation check
opt_process_acquire(j) ==
    /\ program = "optimized"
    /\ task[j] = "acquire"
    /\ waiters # <<>> /\ Head(waiters) = j
    /\ sem_value > 0
    /\ waiters' = Tail(waiters)
    /\ sem_value' = sem_value - 1
    /\ active_downloads' = active_downloads + 1
    /\ downloads' = [downloads EXCEPT ![j].status = "downloading"]
    /\ task' = [task EXCEPT ![j] = "start_bcast"]
    /\ UNCHANGED <<program, cachevars, confvars, wsvars, storevars, now, timer, wake, last_create, request, worker, zombies, failures, last_cancel, cancels>>

\* get_ydl_opts, then wait_for(run_in_executor(...), timeout)
opt_process_start(j) ==
    /\ program = "optimized"
    /\ task[j] = "start_bcast"
    /\ task' = [task EXCEPT ![j] = "executor"]
    /\ worker' = [worker EXCEPT ![j] = "running"]
    /\ UNCHANGED <<program, cachevars, confvars, wsvars, storevars, now, timer, wake, last_create, downloads, request, waiters, sem_value, active_downloads,
                   zombies, failures, last_cancel, cancels>>

\* DownloadProgress.__call__ starts with asyncio.get_event_loop() on the worker
\* thread, which has no event loop: RuntimeError, raised through ydl.download
opt_hook(j) ==
    /\ program = "optimized"
    /\ worker[j] = "running"
    /\ MayFail
    /\ worker' = [worker EXCEPT ![j] = "raised"]
    /\ failures' = [failures EXCEPT ![j] = @ + 1]
    /\ UNCHANGED <<program, cachevars, confvars, wsvars, storevars, now, timer, wake, last_create, downloads, request, task, waiters, sem_value,
                   active_downloads, zombies, last_cancel, cancels>>

\* process_download when wait_for returns or raises the worker's exception
opt_process_result(j) ==
    /\ program = "optimized"
    /\ task[j] = "executor"
    /\ worker[j] \in {"returned", "raised"}
    /\ worker' = [worker EXCEPT ![j] = "none"]
    /\ downloads' = IF worker[j] = "returned"
                       THEN [downloads EXCEPT ![j].status = "completed",
                                              ![j].completed_at = Datetime(now),
                                              ![j].progress = 100]
                       ELSE [downloads EXCEPT ![j].status = "failed",
                                              ![j].error = "set"]
    /\ task' = [task EXCEPT ![j] = "end_bcast"]
    /\ UNCHANGED <<program, cachevars, confvars, wsvars, storevars, now, timer, wake, last_create, request, waiters, sem_value, active_downloads, zombies,
                   failures, last_cancel, cancels>>

\* a faulty timeout handler that queues the job again while its thread still runs
opt_process_timeout_Requeue(j) ==
    /\ program = "optimized"
    /\ task[j] = "executor"
    /\ worker[j] = "running"
    /\ worker' = [worker EXCEPT ![j] = "none"]
    /\ zombies' = [zombies EXCEPT ![j] = @ + 1]
    /\ downloads' = [downloads EXCEPT ![j].status = "queued"]
    /\ task' = [task EXCEPT ![j] = "acquire"]
    /\ waiters' = Append(waiters, j)
    /\ ReleaseSlot
    /\ UNCHANGED <<program, cachevars, confvars, wsvars, storevars, now, timer, wake, last_create, request, failures, last_cancel, cancels>>

\* a faulty timeout handler that fails the job without a description
opt_process_timeout_NoError(j) ==
    /\ program = "optimized"
    /\ task[j] = "executor"
    /\ worker[j] = "running"
    /\ worker' = [worker EXCEPT ![j] = "none"]
    /\ zombies' = [zombies EXCEPT ![j] = @ + 1]
    /\ downloads' = [downloads EXCEPT ![j].status = "failed"]
    /\ task' = [task EXCEPT ![j] = "end_return"]
    /\ UNCHANGED <<program, cachevars, confvars, wsvars, storevars, now, timer, wake, last_create, request, waiters, sem_value, active_downloads, failures,
                   last_cancel, cancels>>

\* `except asyncio.TimeoutError`: the future is dropped, the thread keeps running
opt_process_timeout(j) ==
    /\ program = "optimized"
    /\ task[j] = "executor"
    /\ worker[j] = "running"
    /\ worker' = [worker EXCEPT ![j] = "none"]
    /\ zombies' = [zombies EXCEPT ![j] = @ + 1]
    /\ downloads' = [downloads EXCEPT ![j].status = "failed", ![j].error = "set"]
    /\ task' = [task EXCEPT ![j] = "end_return"]
    /\ UNCHANGED <<program, cachevars, confvars, wsvars, storevars, now, timer, wake, last_create, request, waiters, sem_value, active_downloads, failures,
                   last_cancel, cancels>>

\* save_download_history, first run of the task: history_data, then the
\* await of aiofiles.open
opt_save_begin(s) ==
    /\ program = "optimized"
    /\ saver[s].pc = "start"
    /\ saver' = [saver EXCEPT ![s] = [pc |-> "opening",
                                      data |-> history_data(downloads, order),
                                      handle |-> "none"]]
    /\ UNCHANGED <<program, cachevars, confvars, wsvars, order, disk, tmp, boots, now, timer, wake, last_create,
                   downloads, request, task, waiters, sem_value, active_downloads,
                   worker, zombies, failures, last_cancel, cancels>>

\* aiofiles.open(temp_file, 'w') has run: the file exists and is empty
opt_save_open(s) ==
    /\ program = "optimized"
    /\ saver[s].pc = "opening"
    /\ tmp' = EmptyFile
    /\ saver' = [saver EXCEPT ![s].pc = "open", ![s].handle = "tmp"]
    /\ UNCHANGED <<program, cachevars, confvars, wsvars, order, disk, boots, now, timer, wake, last_create,
                   downloads, request, task, waiters, sem_value, active_downloads,
                   worker, zombies, failures, last_cancel, cancels>>

\* what a write of text `data` at offset 0 leaves in file f: over an empty
\* file the text; over older text the text, or the text and the old tail
Overwrite(f, data) ==
    IF f.items = <<>> /\ ~f.closed THEN {File(data, TRUE)}
    ELSE {File(data, TRUE), File(data, FALSE)}

\* json.dumps and f.write on the open handle, then the close; a TypeError
\* of json.dumps is caught and the temporary file removed
opt_save_write(s) ==
    /\ program = "optimized"
    /\ saver[s].pc = "open"
    /\ IF FirstBad(saver[s].data) = 0
          THEN /\ CASE saver[s].handle = "tmp" ->
                        /\ tmp' \in Overwrite(tmp, saver[s].data)
                        /\ UNCHANGED disk
                     [] saver[s].handle = "disk" ->
                        /\ disk' \in Overwrite(disk, saver[s].data)
                        /\ UNCHANGED tmp
                     [] OTHER -> UNCHANGED <<disk, tmp>>
               /\ saver' = [saver EXCEPT ![s].pc = "written"]
          ELSE /\ tmp' = AbsentFile
               /\ saver' = [t \in Ids |->
                               IF t = s THEN IdleSaver
                               ELSE IF saver[t].handle = "tmp" /\ tmp.exists
                                       THEN [saver[t] EXCEPT !.handle = "unlinked"]
                                       ELSE saver[t]]
               /\ UNCHANGED disk
    /\ UNCHANGED <<program, cachevars, confvars, wsvars, order, boots, now, timer, wake, last_create,
                   downloads, request, task, waiters, sem_value, active_downloads,
                   worker, zombies, failures, last_cancel, cancels>>

\* os.replace(temp_file, HISTORY_FILE); handles open on the temporary file
\* follow it; FileNotFoundError when another save has moved it away
opt_save_replace(s) ==
    /\ program = "optimized"
    /\ saver[s].pc = "written"
    /\ IF tmp.exists
          THEN /\ disk' = tmp
               /\ tmp' = AbsentFile
               /\ saver' = [t \in Ids |->
                               IF t = s THEN IdleSaver
                               ELSE IF saver[t].handle = "tmp"
                                       THEN [saver[t] EXCEPT !.handle = "disk"]
                                       ELSE saver[t]]
          ELSE /\ saver' = [saver EXCEPT ![s] = IdleSaver]
               /\ UNCHANGED <<disk, tmp>>
    /\ UNCHANGED <<program, cachevars, confvars, wsvars, order, boots, now, timer, wake, last_create,
                   downloads, request, task, waiters, sem_value, active_downloads,
                   worker, zombies, failures, last_cancel, cancels>>

\* main.py's save_download_history step by step, as a crash can cut it:
\* history_data, then open(HISTORY_FILE, 'w') truncates the file
save_open ==
    /\ program = "main"
    /\ saver[1].pc = "idle"
    /\ saver' = [saver EXCEPT ![1] = [pc |-> "dumping",
                                      data |-> history_data(downloads, order),
                                      handle |-> "disk"]]
    /\ disk' = EmptyFile
    /\ UNCHANGED <<program, cachevars, confvars, wsvars, order, tmp, boots, now, timer, wake, last_create,
                   downloads, request, task, waiters, sem_value, active_downloads,
                   worker, zombies, failures, last_cancel, cancels>>

\* json.dump writes the next record, or raises TypeError on it and the
\* handler logs the error
save_chunk ==
    LET i == Len(disk.items) + 1
    IN  /\ program = "main"
        /\ saver[1].pc = "dumping"
        /\ i <= Len(saver[1].data)
        /\ IF JsonEncodable(saver[1].data[i])
              THEN /\ disk' = [disk EXCEPT !.items = Append(@, saver[1].data[i])]
                   /\ UNCHANGED saver
              ELSE /\ saver' = [saver EXCEPT ![1] = IdleSaver]
                   /\ UNCHANGED disk
        /\ UNCHANGED <<program, cachevars, confvars, wsvars, order, tmp, boots, now, timer, wake, last_create,
                       downloads, request, task, waiters, sem_value,
                       active_downloads, worker, zombies, failures, last_cancel,
                       cancels>>

\* json.dump has written the closing bracket and the file is closed
save_close ==
    /\ program = "main"
    /\ saver[1].pc = "dumping"
    /\ Len(disk.items) = Len(saver[1].data)
    /\ disk' = [disk EXCEPT !.closed = TRUE]
    /\ saver' = [saver EXCEPT ![1] = IdleSaver]
    /\ UNCHANGED <<program, cachevars, confvars, wsvars, order, tmp, boots, now, timer, wake, last_create,
                   downloads, request, task, waiters, sem_value, active_downloads,
                   worker, zombies, failures, last_cancel, cancels>>

\* main_optimized.py: periodic_history_save, the shutdown hook or a finished
\* job starts a save_download_history task
opt_save_trigger(s) ==
    /\ program = "optimized"
    /\ s <= MaxSavers
    /\ saver[s].pc = "idle"
    /\ saver' = [saver EXCEPT ![s] = [IdleSaver EXCEPT !.pc = "start"]]
    /\ UNCHANGED <<program, cachevars, confvars, wsvars, order, disk, tmp, boots, now, timer, wake, last_create,
                   downloads, request, task, waiters, sem_value, active_downloads,
                   worker, zombies, failures, last_cancel, cancels>>

\* the process dies at any point and is started again: lifespan calls
\* load_download_history on an empty registry
restart ==
    LET loaded == load_download_history(program, disk)
    IN  /\ boots < MaxBoots
        /\ boots' = boots + 1
        /\ downloads' = loaded.reg
        /\ order' = loaded.ids
        /\ saver' = [s \in Ids |-> IdleSaver]
        \* the tasks, threads and semaphore of the old process are gone
        /\ task' = [j \in Ids |-> "none"]
        /\ worker' = [j \in Ids |-> "none"]
        /\ zombies' = [j \in Ids |-> 0]
        /\ waiters' = <<>>
        /\ sem_value' = MAX_CONCURRENT_DOWNLOADS
        /\ active_downloads' = 0
        /\ UNCHANGED <<program, cachevars, confvars, wsvars, disk, tmp, now, timer, wake, last_create, request,
                       failures, last_cancel, cancels>>

\* -------------------------------------------------- ConnectionManager
Connected == {active_connections[i] : i \in 1..Len(active_connections)}

\* the list without the given sockets
Without(list, gone) == SelectSeq(list, LAMBDA c : c \notin gone)

\* ConnectionManager.connect: a new socket is accepted and appended
connect(c) ==
    /\ c \notin Connected
    /\ c \notin dead
    /\ active_connections' = Append(active_connections, c)
    /\ UNCHANGED <<program, cachevars, confvars, storevars, bcast, inbox, dead, now,
                   timer, wake, last_create, downloads, request, task, waiters,
                   sem_value, active_downloads, worker, zombies, failures,
                   last_cancel, cancels>>

\* the peer of a socket goes away: every later send_json on it raises
drop(c) ==
    /\ c \in Connected
    /\ c \notin dead
    /\ Cardinality(dead) < MaxDrops
    /\ dead' = dead \cup {c}
    /\ UNCHANGED <<program, cachevars, confvars, storevars, active_connections, bcast,
                   inbox, now, timer, wake, last_create, downloads, request, task,
                   waiters, sem_value, active_downloads, worker, zombies, failures,
                   last_cancel, cancels>>

\* websocket_endpoint: receive_text raises on the broken socket and the
\* handler calls manager.disconnect
ws_disconnect(c) ==
    /\ c \in Connected
    /\ c \in dead
    /\ active_connections' = Without(active_connections, {c})
    /\ UNCHANGED <<program, cachevars, confvars, storevars, bcast, inbox, dead, now,
                   timer, wake, last_create, downloads, request, task, waiters,
                   sem_value, active_downloads, worker, zombies, failures,
                   last_cancel, cancels>>

\* the loop of broadcast from record r on, up to its next await: main.py
\* iterates the live list by index, main_optimized.py its copy; the next
\* send_json writes the event to a healthy socket; after the loop the sockets
\* that raised are removed
Advance(b, r) ==
    LET list == IF program = "main" THEN active_connections ELSE r.connections
    IN  IF r.idx < Len(list)
           THEN LET c == list[r.idx + 1]
                IN  /\ bcast' = [bcast EXCEPT ![b] =
                                    [r EXCEPT !.pc = "awaiting", !.idx = @ + 1,
                                              !.cur = c, !.raised = (c \in dead)]]
                    /\ inbox' = IF c \in dead THEN inbox
                                ELSE [inbox EXCEPT ![c] = Append(@, b)]
                    /\ UNCHANGED active_connections
           ELSE /\ bcast' = [bcast EXCEPT ![b] = [r EXCEPT !.pc = "done", !.cur = "none"]]
                /\ active_connections' = Without(active_connections, r.disconnected)
                /\ UNCHANGED inbox

\* manager.broadcast(message) starts: events are numbered in the order
\* their broadcasts start; main_optimized.py returns at once without sockets
\* and copies the set
broadcast(b) ==
    /\ bcast[b].pc = "none"
    /\ IF b = 1 THEN TRUE ELSE bcast[b - 1].pc # "none"
    /\ IF program = "optimized" /\ active_connections = <<>>
          THEN /\ bcast' = [bcast EXCEPT ![b] = [IdleBroadcast EXCEPT !.pc = "done"]]
               /\ UNCHANGED <<active_connections, inbox>>
          ELSE Advance(b, [IdleBroadcast EXCEPT
                              !.connections = IF program = "optimized"
                                                 THEN active_connections ELSE <<>>])
    /\ UNCHANGED <<program, cachevars, confvars, storevars, dead, now, timer, wake,
                   last_create, downloads, request, task, waiters, sem_value,
                   active_downloads, worker, zombies, failures, last_cancel, cancels>>

\* `await connection.send_json(message)` returns or raises, and the loop goes on
send_returns(b) ==
    /\ bcast[b].pc = "awaiting"
    /\ Advance(b, [bcast[b] EXCEPT
                      !.disconnected = IF bcast[b].raised THEN @ \cup {bcast[b].cur}
                                       ELSE @])
    /\ UNCHANGED <<program, cachevars, confvars, storevars, dead, now, timer, wake,
                   last_create, downloads, request, task, waiters, sem_value,
                   active_downloads, worker, zombies, failures, last_cancel, cancels>>

\* ------------------------------------------------------ metadata cache
\* where key sits in the cache, 0 if it is not in it
CacheIndex(cache, key) ==
    IF \E i \in 1..Len(cache) : cache[i].key = key
       THEN CHOOSE i \in 1..Len(cache) : cache[i].key = key
       ELSE 0

\* video_info_cache[key] = (data, timestamp): a new key goes last, a known
\* key keeps its place
CachePut(cache, key, data, timestamp) ==
    LET i == CacheIndex(cache, key)
        entry == [key |-> key, data |-> data, timestamp |-> timestamp]
    IN  IF i = 0 THEN Append(cache, entry) ELSE [cache EXCEPT ![i] = entry]

\* a faulty freshness test that still serves an entry exactly TTL old
Fresh_Inclusive(entry) ==
    now - entry.timestamp <= cache_max_age

\* the freshness test of get_video_info
Fresh(entry) ==
    now - entry.timestamp < cache_max_age

\* get_video_info up to its await: a fresh entry is returned, anything else
\* starts the Extractor in the executor
get_video_info(url) ==
    LET i == CacheIndex(video_info_cache, url)
    IN  /\ program = "main"
        /\ lookup[url] = "none"
        /\ IF i # 0 /\ Fresh(video_info_cache[i])
              THEN /\ reply' = [url |-> url, source |-> "cache",
                                data |-> video_info_cache[i].data]
                   /\ UNCHANGED lookup
              ELSE /\ lookup' = [lookup EXCEPT ![url] = "extracting"]
                   /\ UNCHANGED reply
        /\ UNCHANGED <<program, confvars, wsvars, storevars, video_info_cache, now, timer, wake,
                       last_create, downloads, request, task, waiters, sem_value,
                       active_downloads, worker, zombies, failures, last_cancel,
                       cancels>>

\* extract_info returned: the result is cached with the time of the store
\* and returned
extractor_returns(url, info) ==
    /\ program = "main"
    /\ lookup[url] = "extracting"
    /\ video_info_cache' = CachePut(video_info_cache, url, info, now)
    /\ reply' = [url |-> url, source |-> "extractor", data |-> info]
    /\ lookup' = [lookup EXCEPT ![url] = "none"]
    /\ UNCHANGED <<program, confvars, wsvars, storevars, now, timer, wake, last_create, downloads,
                   request, task, waiters, sem_value, active_downloads, worker,
                   zombies, failures, last_cancel, cancels>>

\* extract_info raised or returned None: an error or the fallback answer,
\* nothing is cached
extractor_fails(url) ==
    /\ program = "main"
    /\ lookup[url] = "extracting"
    /\ reply' = [url |-> url, source |-> "error", data |-> "none"]
    /\ lookup' = [lookup EXCEPT ![url] = "none"]
    /\ UNCHANGED <<program, confvars, wsvars, storevars, video_info_cache, now, timer, wake,
                   last_create, downloads, request, task, waiters, sem_value,
                   active_downloads, worker, zombies, failures, last_cancel,
                   cancels>>

\* the entries sorted(..., key=timestamp)[:k] names are deleted: k times the
\* first entry with the smallest timestamp
RECURSIVE EvictOldest(_, _)
EvictOldest(cache, k) ==
    IF k = 0 THEN cache
    ELSE LET i == CHOOSE x \in 1..Len(cache) :
                     /\ \A y \in 1..Len(cache) :
                            cache[x].timestamp <= cache[y].timestamp
                     /\ \A y \in 1..(x - 1) :
                            cache[y].timestamp > cache[x].timestamp
         IN  EvictOldest([n \in 1..(Len(cache) - 1) |->
                             IF n < i THEN cache[n] ELSE cache[n + 1]], k - 1)

\* cleanup_video_cache, called by periodic_cache_cleanup
cleanup_video_cache ==
    LET kept == SelectSeq(video_info_cache,
                          LAMBDA x : ~(now - x.timestamp >= cache_max_age))
    IN  /\ program = "main"
        /\ video_info_cache' =
              IF Len(kept) > cache_max_size
                 THEN EvictOldest(kept, Len(kept) - cache_max_size)
                 ELSE kept
        /\ UNCHANGED <<program, confvars, wsvars, storevars, lookup, reply, now, timer, wake,
                       last_create, downloads, request, task, waiters, sem_value,
                       active_downloads, worker, zombies, failures, last_cancel,
                       cancels>>

\* datetime.now() moves on between the calls of the cache scenario
clock_tick ==
    /\ now < MaxClock
    /\ now' = now + 1
    /\ UNCHANGED <<program, confvars, wsvars, storevars, cachevars, timer, wake, last_create,
                   downloads, request, task, waiters, sem_value, active_downloads,
                   worker, zombies, failures, last_cancel, cancels>>

\* an abandoned thread ends: it returns, raises, or its hook raises
zombie_ends(j) ==
    /\ zombies[j] > 0
    /\ zombies' = [zombies EXCEPT ![j] = @ - 1]
    /\ UNCHANGED <<program, cachevars, confvars, wsvars, storevars, now, timer, wake, last_create, downloads, request, task, waiters, sem_value,
                   active_downloads, worker, failures, last_cancel, cancels>>

\* steps of main.py's tasks and of its progress hook
MainRun ==
    \/ \E j \in Created : schedule_start(j)
    \/ \E j \in Created : schedule_download(j)
    \/ time_passes
    \/ \E j \in Created : schedule_process(j)
    \/ \E j \in Created : process_acquire(j)
    \/ \E j \in Created : process_start(j)
    \/ \E j \in Created : \E phase \in {"hook_downloading", "hook_finished"} :
          hook_check(j, phase)
    \/ \E j \in Created, d \in JobSamples : hook_write(j, d)
    \/ \E j \in Created : process_result(j)
    \/ \E j \in Created : process_retry(j)

\* steps of main_optimized.py's save_download_history tasks
SaveRun ==
    \/ \E s \in Ids : opt_save_begin(s)
    \/ \E s \in Ids : opt_save_open(s)
    \/ \E s \in Ids : opt_save_write(s)
    \/ \E s \in Ids : opt_save_replace(s)

\* steps of main_optimized.py's tasks and of its progress hook
OptRun ==
    \/ MoreJobs /\ opt_create_download
    \/ \E j \in Created : opt_process_acquire(j)
    \/ \E j \in Created : opt_process_start(j)
    \/ \E j \in Created : opt_hook(j)
    \/ \E j \in Created : opt_process_result(j)
    \/ \E j \in Created : opt_process_timeout(j)
    \/ \E j \in Created : zombie_ends(j)
    \/ SaveRun

\* the ids a cancel request names: the jobs and one id the registry never holds
CancelIds == Created \cup {MaxJobs + 1}

\* steps whose code is the same in both entry modules
SharedRun ==
    \/ \E j \in Created : worker_returns(j)
    \/ \E j \in Created : worker_raises(j)
    \/ \E j \in Created : process_end(j)
    \/ \E j \in CancelIds : cancel_download(j)

Next ==
    \/ \E req \in DownloadRequest : MoreJobs /\ create_download(req)
    \/ MainRun
    \/ OptRun
    \/ SharedRun

Spec == Init /\ [][Next]_vars

\* main.py alone
InitMain == Init /\ program = "main"

MainNext ==
    \/ \E req \in DownloadRequest : MoreJobs /\ create_download(req)
    \/ MainRun
    \/ SharedRun

SpecMain == InitMain /\ [][MainNext]_vars

\* both entry modules, main.py fed requests of SlotRequests only
SlotsNext ==
    \/ \E req \in SlotRequests : MoreJobs /\ create_download(req)
    \/ MainRun
    \/ OptRun
    \/ SharedRun

SpecSlots == Init /\ [][SlotsNext]_vars

\* main.py alone, fed requests of ScheduleRequests
ScheduleNext ==
    \/ \E req \in ScheduleRequests : MoreJobs /\ create_download(req)
    \/ MainRun
    \/ SharedRun

SpecSchedule == InitMain /\ [][ScheduleNext]_vars

\* ------------------------------------------------------ scenario: burst
\* either entry module taking BurstJobs intake requests of one kind, with an
\* Extractor that never fails and nobody cancelling
BurstRequests ==
    [audio_only : {FALSE}, format_id : {FALSE}, quality : {FALSE},
     auto_retry : {FALSE}, max_retries : {1}, scheduled_time : {"none"}]

BurstNext ==
    \/ \E req \in BurstRequests : create_download(req)
    \/ \E j \in Created : process_acquire(j)
    \/ \E j \in Created : process_start(j)
    \/ \E j \in Created : process_result(j)
    \/ opt_create_download
    \/ opt_create_rejected
    \/ \E j \in Created : opt_process_acquire(j)
    \/ \E j \in Created : opt_process_start(j)
    \/ \E j \in Created : opt_process_result(j)
    \/ SaveRun
    \/ \E j \in Created : worker_returns(j)
    \/ \E j \in Created : process_end(j)

SpecBurst == Init /\ [][BurstNext]_vars

\* ------------------------------------------------ scenario: History Store
\* the records of a registry of either entry module
StoredRecords(prog) ==
    IF prog = "main"
       THEN [status : {"queued", "completed"}, error : {NULL},
             created_at : {Datetime(t) : t \in 1..MaxStamp},
             completed_at : {None, Datetime(MaxStamp + 1)},
             scheduled_time : {None, Datetime(MaxStamp)},
             max_retries : {3}, retry_count : {0}, progress : {0}]
       ELSE [status : {"queued", "completed"}, error : {NULL},
             created_at : {Datetime(t) : t \in 1..MaxStamp},
             completed_at : {None, Datetime(MaxStamp + 1)}, progress : {0}]

\* the registries: jobs 1..n in dict order
StoredRegistries(prog) ==
    UNION {[1..n -> StoredRecords(prog)] : n \in 1..MaxStored}

\* a process that holds a registry, with no history file yet and no job running
InitStore ==
    /\ program \in Programs
    /\ downloads \in StoredRegistries(program)
    /\ order = [i \in DOMAIN downloads |-> i]
    /\ request = <<>>
    /\ task = [j \in Ids |-> "none"]
    /\ waiters = <<>>
    /\ sem_value = MAX_CONCURRENT_DOWNLOADS
    /\ active_downloads = 0
    /\ worker = [j \in Ids |-> "none"]
    /\ zombies = [j \in Ids |-> 0]
    /\ failures = [j \in Ids |-> 0]
    /\ last_cancel = <<>>
    /\ cancels = 0
    /\ now = 0
    /\ timer = [j \in Ids |-> 0]
    /\ wake = [j \in Ids |-> 0]
    /\ last_create = <<>>
    /\ disk = AbsentFile
    /\ tmp = AbsentFile
    /\ saver = [s \in Ids |-> IdleSaver]
    /\ boots = 0
    /\ video_info_cache = <<>>
    /\ lookup = [u \in Urls |-> "none"]
    /\ reply = NoReply
    /\ FFMPEG_AVAILABLE = TRUE
    /\ DOWNLOAD_DIR = "d0"
    /\ ydl_opts = [j \in Ids |-> NoOpts]
    /\ active_connections = <<>>
    /\ bcast = [b \in Events |-> IdleBroadcast]
    /\ inbox = [c \in Subscribers |-> <<>>]
    /\ dead = {}

StoreNext ==
    \/ save_open
    \/ save_chunk
    \/ save_close
    \/ \E s \in Ids : opt_save_trigger(s)
    \/ SaveRun
    \/ restart

SpecStore == InitStore /\ [][StoreNext]_vars

\* ---------------------------------------------------- scenario: startup
\* the dicts a history file can hold, well-formed or not
StartupItems ==
    [id : 1..2, status : {"completed"}, error : {NULL},
     created_at : {IsoFormat(Datetime(1)), BadString},
     completed_at : {None, IsoFormat(Datetime(2))}]

\* the history files a process can find at startup
StartupFiles ==
    {AbsentFile} \cup
    {File(items, closed) :
        items \in UNION {[1..n -> StartupItems] : n \in 0..2}, closed \in BOOLEAN}

\* a fresh process next to any such file
InitLoad ==
    /\ program \in Programs
    /\ downloads = <<>>
    /\ order = <<>>
    /\ request = <<>>
    /\ task = [j \in Ids |-> "none"]
    /\ waiters = <<>>
    /\ sem_value = MAX_CONCURRENT_DOWNLOADS
    /\ active_downloads = 0
    /\ worker = [j \in Ids |-> "none"]
    /\ zombies = [j \in Ids |-> 0]
    /\ failures = [j \in Ids |-> 0]
    /\ last_cancel = <<>>
    /\ cancels = 0
    /\ now = 0
    /\ timer = [j \in Ids |-> 0]
    /\ wake = [j \in Ids |-> 0]
    /\ last_create = <<>>
    /\ disk \in StartupFiles
    /\ tmp = AbsentFile
    /\ saver = [s \in Ids |-> IdleSaver]
    /\ boots = 0
    /\ video_info_cache = <<>>
    /\ lookup = [u \in Urls |-> "none"]
    /\ reply = NoReply
    /\ FFMPEG_AVAILABLE = TRUE
    /\ DOWNLOAD_DIR = "d0"
    /\ ydl_opts = [j \in Ids |-> NoOpts]
    /\ active_connections = <<>>
    /\ bcast = [b \in Events |-> IdleBroadcast]
    /\ inbox = [c \in Subscribers |-> <<>>]
    /\ dead = {}

SpecLoad == InitLoad /\ [][restart]_vars

\* ---------------------------------------------------- scenario: broadcasts
\* sockets connect, then events are broadcast while sockets break
BroadcastNext ==
    \/ \E c \in Subscribers : bcast[1].pc = "none" /\ connect(c)
    \/ \E c \in Subscribers : drop(c)
    \/ \E c \in Subscribers : ws_disconnect(c)
    \/ \E b \in Events : broadcast(b)
    \/ \E b \in Events : send_returns(b)

SpecBroadcast == Init /\ [][BroadcastNext]_vars

\* --------------------------------------- scenario: options and configuration
OptionRequests ==
    [audio_only : BOOLEAN, format_id : BOOLEAN, quality : BOOLEAN,
     auto_retry : BOOLEAN, max_retries : {1}, scheduled_time : {"none"}]

\* main.py jobs with any options while the configuration is changed; the
\* directory is changed only after the last job was created
OptionsNext ==
    \/ \E req \in OptionRequests : MoreJobs /\ create_download(req)
    \/ \E j \in Created : process_acquire(j)
    \/ \E j \in Created : process_start(j)
    \/ \E j \in Created : worker_returns(j)
    \/ \E j \in Created : worker_raises(j)
    \/ \E j \in Created : process_result(j)
    \/ \E j \in Created : process_retry(j)
    \/ \E j \in Created : process_end(j)
    \/ \E found \in BOOLEAN : restart_application(found)
    \/ \E dir \in Dirs : ~MoreJobs /\ set_download_directory(dir)

SpecOptions == InitMain /\ [][OptionsNext]_vars

\* ----------------------------------------------- scenario: metadata cache
CacheNext ==
    \/ \E url \in Urls : get_video_info(url)
    \/ \E url \in Urls, info \in Infos : extractor_returns(url, info)
    \/ \E url \in Urls : extractor_fails(url)
    \/ cleanup_video_cache
    \/ clock_tick

SpecCache == InitMain /\ [][CacheNext]_vars

\* ------------------------------------------- scenario: progress samples
ProgressRequests ==
    [audio_only : {FALSE}, format_id : {FALSE}, quality : {FALSE},
     auto_retry : {FALSE}, max_retries : {0}, scheduled_time : {"none"}]

\* main.py downloads that report any sample and end normally
ProgressNext ==
    \/ \E req \in ProgressRequests : MoreJobs /\ create_download(req)
    \/ \E j \in Created : process_acquire(j)
    \/ \E j \in Created : process_start(j)
    \/ \E j \in Created : \E phase \in {"hook_downloading", "hook_finished"} :
          hook_check(j, phase)
    \/ \E j \in Created, d \in Samples : hook_write(j, d)
    \/ \E j \in Created : worker_returns(j)
    \/ \E j \in Created : process_result(j)
    \/ \E j \in Created : process_end(j)

SpecProgress == InitMain /\ [][ProgressNext]_vars

\* ---------------------------------------------------- scenario: retries
\* main.py with an Extractor that fails a job at most max_retries times and
\* nobody cancelling; tasks, timers and threads keep running, and a call that
\* can return again and again does return.
\* the scenario's Extractor error: the job has failed less than max_retries times
scenario_raises(j) ==
    /\ failures[j] < downloads[j].max_retries
    /\ worker_raises(j)

RetryNext ==
    \/ \E req \in RetryRequests : MoreJobs /\ create_download(req)
    \/ \E j \in Created : process_acquire(j)
    \/ \E j \in Created : process_start(j)
    \/ \E j \in Created : \E phase \in {"hook_downloading", "hook_finished"} :
          hook_check(j, phase)
    \/ \E j \in Created, d \in JobSamples : hook_write(j, d)
    \/ \E j \in Created : worker_returns(j)
    \/ \E j \in Created : scenario_raises(j)
    \/ \E j \in Created : process_result(j)
    \/ \E j \in Created : process_retry(j)
    \/ \E j \in Created : process_end(j)

\* the event loop runs every ready task, the executor runs every thread and
\* the clock keeps advancing
LoopFairness ==
    \A j \in Ids :
       /\ WF_vars(time_passes)
       /\ WF_vars(schedule_start(j))
       /\ WF_vars(schedule_download(j))
       /\ WF_vars(schedule_process(j))
       /\ WF_vars(process_acquire(j))
       /\ WF_vars(process_start(j))
       /\ WF_vars(\E d \in JobSamples : hook_write(j, d))
       /\ WF_vars(process_result(j))
       /\ WF_vars(process_retry(j))
       /\ WF_vars(process_end(j))
       /\ WF_vars(opt_process_acquire(j))
       /\ WF_vars(opt_process_start(j))
       /\ WF_vars(opt_process_result(j))

\* every Extractor call eventually returns
ExtractorReturns == \A j \in Ids : SF_vars(worker_returns(j))

SpecRetry == InitMain /\ [][RetryNext]_vars /\ LoopFairness /\ ExtractorReturns

\* ------------------------------------------------------ scenario: drain
\* either entry module with an Extractor that never fails, no timeout and
\* nobody cancelling.
DrainNext ==
    \/ \E req \in SlotRequests : MoreJobs /\ create_download(req)
    \/ \E j \in Created : schedule_start(j)
    \/ \E j \in Created : schedule_download(j)
    \/ time_passes
    \/ \E j \in Created : schedule_process(j)
    \/ \E j \in Created : process_acquire(j)
    \/ \E j \in Created : process_start(j)
    \/ \E j \in Created : \E phase \in {"hook_downloading", "hook_finished"} :
          hook_check(j, phase)
    \/ \E j \in Created, d \in JobSamples : hook_write(j, d)
    \/ \E j \in Created : worker_returns(j)
    \/ \E j \in Created : process_result(j)
    \/ \E j \in Created : process_end(j)
    \/ MoreJobs /\ opt_create_download
    \/ \E j \in Created : opt_process_acquire(j)
    \/ \E j \in Created : opt_process_start(j)
    \/ \E j \in Created : opt_process_result(j)
    \/ SaveRun

SpecDrain == Init /\ [][DrainNext]_vars /\ LoopFairness /\ ExtractorReturns

\* ------------------------------------------------------------ properties
Status(j) == downloads[j].status

\* executor threads currently inside download_with_ydl for job j
ActiveRuns(j) ==
    (IF worker[j] \in {"running", "hook_downloading", "hook_finished"} THEN 1 ELSE 0)
    + zombies[j]

\* C1: at most MAX_CONCURRENT_DOWNLOADS jobs are in status downloading or
\* processing, in every reachable state.
C1_ConcurrencyBound ==
    Cardinality({j \in Created : Status(j) \in Running}) <= MAX_CONCURRENT_DOWNLOADS

\* C1 witness: every slot is taken by a running job while another job waits.
C1_Witness ==
    /\ Cardinality({j \in Created : Status(j) \in Running}) = MAX_CONCURRENT_DOWNLOADS
    /\ \E j \in Created : task[j] = "acquire" /\ Status(j) \in {"queued", "retrying"}

\* the step in which job j's attempt is ended as a failure (error or timeout)
FailureHandled(j) ==
    /\ task[j] = "executor"
    /\ task'[j] # "executor"
    /\ worker[j] \in {"raised", "running"}

\* C2: a job that is cancelled when its attempt reports a failure stays
\* cancelled: no failed, no retrying, no retry_count increment, no new attempt.
C2_CancelledNotOverwritten ==
    [][\A j \in Created :
          (Status(j) = "cancelled" /\ FailureHandled(j)) =>
             /\ downloads'[j].status = "cancelled"
             /\ program = "main" =>
                   downloads'[j].retry_count = downloads[j].retry_count
             /\ task'[j] \notin {"retry_sleep", "acquire"}]_vars

\* the step is a cancel_download call for job j
CancelStep(j) == cancels' = cancels + 1 /\ last_cancel'[1] = j

\* C3: cancelling a queued or scheduled job makes it cancelled in that step,
\* and a cancelled job never enters downloading.
C3_CancelBeforeStart ==
    [][\A j \in Created :
          /\ (CancelStep(j) /\ Status(j) \in {"queued", "scheduled"}) =>
                downloads'[j].status = "cancelled"
          /\ Status(j) = "cancelled" => downloads'[j].status # "downloading"]_vars

\* C4: 0 <= retry_count <= max_retries for every job that has the counters, and
\* a failure at retry_count = max_retries gives failed, never retrying.
C4_RetryBounded ==
    /\ [](\A j \in Created :
            program = "main" =>
               /\ 0 <= downloads[j].retry_count
               /\ downloads[j].retry_count <= downloads[j].max_retries)
    /\ [][\A j \in Created :
            (/\ program = "main"
             /\ downloads[j].retry_count = downloads[j].max_retries
             /\ Status(j) # "cancelled"
             /\ FailureHandled(j)) =>
               downloads'[j].status = "failed"]_vars

\* C5: completed_at is set exactly when the status is completed, failed or
\* cancelled.
C5_CompletedAtIffTerminal ==
    \A j \in Created : (downloads[j].completed_at # None) <=> (Status(j) \in Terminal)

\* C6: once a job is completed, failed or cancelled, no step changes its status.
C6_TerminalAbsorbing ==
    [][\A j \in Created :
          Status(j) \in Terminal => downloads'[j].status = Status(j)]_vars

\* the job of C7: scheduled in the future, max_retries = 0 in the request
C7Job(j) ==
    /\ j \in Created
    /\ program = "main"
    /\ request[j].scheduled_time = "future"
    /\ request[j].max_retries = 0

\* C7: such a job, with an Extractor that only fails and nobody cancelling,
\* changes status only along scheduled -> queued -> downloading -> failed,
\* keeps retry_count 0, and is failed with completed_at and error set.
C7_ScheduledFailingJob ==
    /\ [](\A j \in Ids : C7Job(j) /\ cancels = 0 =>
            /\ downloads[j].retry_count = 0
            /\ Status(j) # "retrying"
            /\ Status(j) = "failed" =>
                  downloads[j].completed_at # None /\ downloads[j].error # NULL)
    /\ [][\A j \in Ids :
            (/\ C7Job(j) /\ cancels' = 0
             /\ worker[j] \notin {"returned", "hook_finished"}
             /\ downloads'[j].status # Status(j)) =>
               <<Status(j), downloads'[j].status>> \in
                  {<<"scheduled", "queued">>, <<"queued", "downloading">>,
                   <<"downloading", "failed">>}]_vars

\* C8: with auto_retry, an Extractor that fails a job k <= max_retries times
\* and then succeeds leaves the job completed with retry_count = k, one
\* retrying step per failure.
C8_RetryThenComplete ==
    /\ [][\A j \in Created :
            IF downloads'[j].status = "retrying" /\ Status(j) # "retrying"
               THEN downloads'[j].retry_count = downloads[j].retry_count + 1
               ELSE downloads'[j].retry_count = downloads[j].retry_count]_vars
    /\ \A j \in Ids :
          [](j \in Created =>
                <>(/\ j \in Created
                   /\ Status(j) = "completed"
                   /\ downloads[j].retry_count = failures[j]))

\* C8 witness: the spec's case, completed after two retries under max_retries 3.
C8_Witness ==
    \E j \in Created :
       /\ program = "main"
       /\ request[j].auto_retry
       /\ downloads[j].max_retries = 3
       /\ Status(j) = "completed"
       /\ failures[j] = 2
       /\ downloads[j].retry_count = 2

\* C9: with more jobs than slots, a job waiting for a slot stays queued, and
\* with an Extractor that always returns every job gets completed.
C9_QueueDrains ==
    /\ [](\A j \in Created : task[j] = "acquire" => Status(j) = "queued")
    /\ [](Cardinality({j \in Created : Status(j) \in Running})
             <= MAX_CONCURRENT_DOWNLOADS)
    /\ \A j \in Ids :
          [](j \in Created => <>(j \in Created /\ Status(j) = "completed"))

\* C9 witness: more jobs than slots, every slot downloading, the rest queued.
C9_Witness ==
    /\ Cardinality(Created) > MAX_CONCURRENT_DOWNLOADS
    /\ Cardinality({j \in Created : Status(j) = "downloading"})
          = MAX_CONCURRENT_DOWNLOADS
    /\ \A j \in Created : Status(j) \in {"downloading", "queued"}

\* C10: at most one executor thread runs download_with_ydl for a job id.
C10_OneRunPerJob == \A j \in Ids : ActiveRuns(j) <= 1

\* C10 witness: the attempt after a retry is running for a job that was scheduled.
C10_Witness ==
    \E j \in Created :
       /\ program = "main"
       /\ worker[j] = "running"
       /\ downloads[j].retry_count = 1
       /\ downloads[j].scheduled_time # None

\* job j's process_download is inside `async with download_semaphore`, past
\* the cancelled-before-start return
HoldsSlot(j) ==
    task[j] \in {"start_bcast", "executor", "retry_sleep", "end_bcast", "end_return"}

\* C11: a job in status retrying holds no slot, so a retry backoff never keeps
\* a queued job waiting for the semaphore.
C11_RetryingHoldsNoSlot ==
    \A j \in Created : Status(j) = "retrying" => ~HoldsSlot(j)

\* C12: the step that creates a job answers with its id and initial status and
\* runs nothing of it; the status is scheduled when scheduled_time is in the
\* future and queued otherwise; a scheduled job waits for no slot, and leaves
\* scheduled only for queued, at or after its scheduled_time.
C12_Admission ==
    /\ [](\A j \in Created :
            Status(j) = "scheduled" => task[j] \in {"sched_start", "sleep"})
    /\ [][\A j \in DOMAIN downloads' :
            /\ j \notin Created =>
                  /\ downloads'[j].status =
                        (IF request'[j].scheduled_time = "future"
                            THEN "scheduled" ELSE "queued")
                  /\ last_create' = <<j, downloads'[j].status>>
                  /\ worker' = worker
                  /\ sem_value' = sem_value
                  /\ active_downloads' = active_downloads
                  /\ \A k \in Created : downloads'[k] = downloads[k]
            /\ (j \in Created /\ Status(j) = "scheduled"
                  /\ downloads'[j].status # "scheduled") =>
                  /\ downloads'[j].status = "queued"
                  /\ now >= timer[j]]_vars

\* C12 witness: one job left scheduled for queued when its time had come, and
\* another, whose scheduled_time was not in the future, was created queued.
C12_Witness ==
    \E j, k \in Created :
       /\ request[j].scheduled_time = "future"
       /\ Status(j) = "queued"
       /\ task[j] = "sched_bcast"
       /\ now >= timer[j]
       /\ request[k].scheduled_time = "past"
       /\ last_create = <<k, "queued">>

\* C13: the number of queued jobs never exceeds the backlog limit; one more
\* is allowed for, the job the intake test admits at exactly the limit.
C13_BacklogBounded == QueuedCount <= BacklogLimit + 1

\* C14: at every moment, a crash included, the history file is a complete
\* snapshot (the previous or the new one), never empty or partial.
C14_HistoryFileComplete == disk.exists => disk.closed

\* the jobs save_download_history keeps: the MAX_HISTORY_SIZE newest
Retained(reg, ids) ==
    LET data == history_data(reg, ids)
    IN  [j \in {data[i].id : i \in 1..Len(data)} |-> reg[j]]

\* no save_download_history is under way
SaversIdle == \A s \in Ids : saver[s].pc = "idle"

\* C15: a save followed by a load into an empty registry reproduces the
\* MAX_HISTORY_SIZE newest jobs with their statuses and timestamps, for any
\* registry, with or without scheduled_time and completed_at.
C15_SaveLoadRoundTrip ==
    [][(boots = 0 /\ boots' = 1 /\ disk.exists /\ SaversIdle)
          => downloads' = Retained(downloads, order)]_vars

\* the file is missing, unparseable or holds a malformed record
Broken(file) ==
    \/ ~file.exists
    \/ ~file.closed
    \/ \E i \in 1..Len(file.items) : Malformed(file.items[i])

\* C16: loading a missing, unparseable or anywhere-malformed history file
\* leaves the registry empty, not a prefix of the file.
C16_BrokenFileLoadsNothing ==
    [][(boots' = boots + 1 /\ Broken(disk)) => downloads' = <<>>]_vars

\* the save_download_history executions past their first statement
SavesUnderWay == {s \in Ids : saver[s].pc \in {"opening", "open", "written", "dumping"}}

\* C17: no two executions of save_download_history overlap.
C17_SavesDoNotOverlap == Cardinality(SavesUnderWay) <= 1

\* C20: for every progress sample the progress stored on the job is within
\* [0, 100].
C20_ProgressInRange == \A j \in Created : downloads[j].progress \in 0..100

\* url has an entry that was stored less than the TTL ago
Young(url) ==
    \E i \in 1..Len(video_info_cache) :
        /\ video_info_cache[i].key = url
        /\ now - video_info_cache[i].timestamp < cache_max_age

\* the data cached for url in the given cache
Cached(cache, url) ==
    {cache[i].data : i \in {n \in 1..Len(cache) : cache[n].key = url}}

\* C18: a lookup answers from the cache only for an entry younger than the
\* TTL, with the stored value and without starting the Extractor; for such
\* an entry no Extractor is started; for an older or absent entry the lookup
\* starts the Extractor, whose result is stored with the current time.
C18_CacheLookup ==
    [][\A u \in Urls :
          /\ (reply' # reply /\ reply'.url = u /\ reply'.source = "cache")
                => /\ Young(u)
                   /\ Cached(video_info_cache, u) = {reply'.data}
                   /\ lookup' = lookup
          /\ (Young(u) /\ lookup[u] = "none") => lookup'[u] = "none"
          /\ (lookup[u] = "extracting" /\ lookup'[u] = "none"
                 /\ reply'.source = "extractor")
                => \E i \in 1..Len(video_info_cache') :
                      video_info_cache'[i] =
                         [key |-> u, data |-> reply'.data, timestamp |-> now]
      ]_vars

\* a hit was served while another URL's entry, at least TTL old, is being
\* fetched again
C18_Witness ==
    /\ reply.source = "cache"
    /\ Young(reply.url)
    /\ \E u \in Urls :
          /\ lookup[u] = "extracting"
          /\ CacheIndex(video_info_cache, u) # 0
          /\ ~Young(u)

\* C19: after any put the cache holds at most cache_max_size entries.
C19_CacheBounded == Len(video_info_cache) <= cache_max_size

\* C21: within one execution attempt the stored progress never decreases
\* from one sample to the next.
C21_ProgressMonotonic ==
    [][\A j \in Created :
          (worker[j] = "hook_downloading" /\ worker'[j] = "running")
             => downloads'[j].progress >= downloads[j].progress]_vars

\* C24: a cancel request for a job that is not queued, scheduled or
\* downloading returns the explanatory message and leaves the registry as it
\* was; a cancel request for an unknown id gets the 404 and changes nothing.
C24_CancelRefused ==
    [][cancels' # cancels =>
          LET j == last_cancel'[1]
          IN  /\ j \notin Created
                    => /\ last_cancel'[2] = "404 Download not found"
                       /\ downloads' = downloads
              /\ (j \in Created /\
                   downloads[j].status \notin {"queued", "scheduled", "downloading"})
                    => /\ last_cancel'[2] = "Cannot cancel completed download"
                       /\ downloads' = downloads]_vars

\* a cancel request was refused for a job between two attempts
C24_Witness ==
    /\ last_cancel # <<>>
    /\ last_cancel[1] \in Created
    /\ last_cancel[2] = "Cannot cancel completed download"
    /\ downloads[last_cancel[1]].status = "retrying"

\* C27: an intake request with an unparseable scheduled_time creates no job.
C27_InvalidTimeRejected ==
    [][\A j \in DOMAIN downloads' \ DOMAIN downloads :
          request'[j].scheduled_time # "invalid"]_vars

\* C28: an attempt that ends in an error records the error on the job before
\* the retry decision is applied, also when the decision is to retry.
C28_ErrorRecordedBeforeRetry ==
    \A j \in Created : downloads[j].status = "retrying" => downloads[j].error # NULL

\* C29: a job's error field is set if and only if its status is failed.
C29_ErrorIffFailed ==
    \A j \in Created : (downloads[j].error # NULL) <=> (downloads[j].status = "failed")

\* main.py gave up on a job after a retry, and main_optimized.py failed one
\* on the timeout
C29_Witness ==
    \E j \in Created :
        /\ downloads[j].status = "failed"
        /\ downloads[j].error # NULL
        /\ \/ program = "main" /\ downloads[j].retry_count > 0
           \/ program = "optimized" /\ zombies[j] > 0

\* the attempt of job j leaves its start without handing the job to yt-dlp
StartRaises(j) ==
    /\ task[j] = "start_bcast"
    /\ task'[j] # "start_bcast"
    /\ worker'[j] # "running"

\* C25: the attempt of an audio-only job that starts while ffmpeg is
\* unavailable never reaches the Extractor, whatever other options it has.
C25_AudioOnlyNeedsTranscoder ==
    [][\A j \in Created :
          (task[j] = "start_bcast" /\ task'[j] # "start_bcast"
             /\ request[j].audio_only /\ ~FFMPEG_AVAILABLE)
          => worker'[j] # "running"]_vars

\* C26: an attempt that fails because ffmpeg is unavailable is not retried:
\* the job is never moved to retrying and retry_count stays.
C26_TranscoderFailureNotRetried ==
    [][\A j \in Created :
          (StartRaises(j) /\ downloads[j].status # "cancelled")
          => /\ downloads'[j].status = "failed"
             /\ downloads'[j].retry_count = downloads[j].retry_count]_vars

\* C30: every attempt runs with the output directory that was configured
\* when its job was created.
C30_OptionsFixedAtCreation ==
    \A j \in Created : ydl_opts[j] # NoOpts => ydl_opts[j].outdir = "d0"

\* the events written to the socket of c
Received(c) == {inbox[c][i] : i \in 1..Len(inbox[c])}

\* C22: whatever sends fail during a broadcast, the event is still sent to
\* every other subscriber: once a broadcast is over, every socket that is
\* connected and healthy has got its event.
C22_BroadcastReachesOthers ==
    \A b \in Events :
        bcast[b].pc = "done" => \A c \in Connected \ dead : b \in Received(c)

\* C23: every subscriber of main.py receives the events of a job (its
\* progress events and the event that ends the attempt) in the order their
\* broadcasts were started.
C23_EventsInOrder ==
    program = "main" =>
        \A c \in Subscribers :
            \A i \in 1..Len(inbox[c]) : \A k \in 1..(i - 1) : inbox[c][k] < inbox[c][i]

\* C36: a job carries a scheduled_time only if it was created in the status
\* scheduled: a job that enters the registry as queued carries none.
C36_ScheduledTimeOnlyIfScheduled ==
    [][program = "main" =>
          \A j \in DOMAIN downloads' \ DOMAIN downloads :
              downloads'[j].status = "queued" => downloads'[j].scheduled_time = None]_vars

\* C33: every change of a job's status is one of the edges queued->downloading,
\* scheduled->queued, downloading->processing, processing->completed,
\* downloading->retrying, retrying->downloading, downloading->failed and
\* queued/scheduled/downloading->cancelled.
C33_StatusEdges ==
    [][\A j \in DOMAIN downloads \cap DOMAIN downloads' :
          downloads'[j].status # downloads[j].status =>
              <<downloads[j].status, downloads'[j].status>> \in
                  {<<"queued", "downloading">>, <<"scheduled", "queued">>,
                   <<"downloading", "processing">>, <<"processing", "completed">>,
                   <<"downloading", "retrying">>, <<"retrying", "downloading">>,
                   <<"downloading", "failed">>, <<"queued", "cancelled">>,
                   <<"scheduled", "cancelled">>, <<"downloading", "cancelled">>}]_vars

\* C34: when a retried job starts its new attempt (retrying -> downloading)
\* its progress is 0 at the moment it enters downloading.
C34_RetryStartsAtZero ==
    [][\A j \in DOMAIN downloads \cap DOMAIN downloads' :
          (downloads[j].status = "retrying" /\ downloads'[j].status = "downloading")
              => downloads'[j].progress = 0]_vars

\* C35: whenever a job's status becomes completed, failed or cancelled, the
\* step leaves the job's task in front of a history save (the save that
\* follows the broadcast of the transition).
C35_TerminalThenSave ==
    [][\A j \in DOMAIN downloads \cap DOMAIN downloads' :
          (downloads[j].status \notin Terminal /\ downloads'[j].status \in Terminal)
              => task'[j] = "end_bcast"]_vars

\* C31: the slot of an attempt that was ended for exceeding its maximum
\* duration is not handed on while the attempt's worker is still running: the
\* tasks that hold a slot and the jobs whose abandoned worker still runs
\* after its task gave the slot back never number more than the bound.
C31_TimedOutSlotKept ==
    Cardinality({k \in Created : HoldsSlot(k)})
        + Cardinality({j \in Created : zombies[j] > 0 /\ ~HoldsSlot(j)})
            <= MAX_CONCURRENT_DOWNLOADS

\* C40: when save_download_history ends in an error partway through (a record
\* that cannot be encoded), the history file it leaves is a complete one.
C40_FailedSaveKeepsFile ==
    [][(/\ saver[1].pc = "dumping"
        /\ saver'[1].pc = "idle"
        /\ boots' = boots
        /\ Len(disk.items) < Len(saver[1].data))
          => (disk'.exists /\ disk'.closed)]_vars

\* C38: when a subscriber disconnects or is pruned while a broadcast iterates,
\* every other subscriber that stays connected for the whole broadcast gets
\* the event exactly once: once the broadcast is over, the event is in the
\* inbox of each connected, healthy socket one time.
C38_ExactlyOnceDespiteDisconnect ==
    \A b \in Events :
        bcast[b].pc = "done" =>
            \A c \in Connected \ dead :
                Cardinality({i \in 1..Len(inbox[c]) : inbox[c][i] = b}) = 1

\* C39: every job in a non-terminal status is driven by a live task or timer,
\* also a job that was saved in a non-terminal status and loaded back by a
\* restart: after a restart no job in the registry is left without a task.
C39_LoadedJobsDriven ==
    boots > 0 =>
        \A j \in Created :
            downloads[j].status \notin Terminal => task[j] \notin {"none", "done"}

\* ---------------------------------------------------- scenario: startup bound
\* the values MAX_CONCURRENT_DOWNLOADS can be given in the environment
ConfiguredBounds == (-1)..MAX_CONCURRENT_DOWNLOADS

\* the module-level code that builds the semaphore from the configured bound:
\* main_optimized.py raises ValueError outside 1..10, main.py checks nothing and
\* asyncio.Semaphore raises ValueError below 0
Startup(prog, n) ==
    IF prog = "optimized"
       THEN [raised |-> n < 1 \/ n > 10, value |-> n]
       ELSE [raised |-> n < 0, value |-> n]

\* a process of either entry module that came up under one of the bounds
InitStartup ==
    /\ program \in Programs
    /\ downloads = <<>>
    /\ request = <<>>
    /\ task = [j \in Ids |-> "none"]
    /\ waiters = <<>>
    /\ sem_value \in {Startup(program, n).value :
                         n \in {m \in ConfiguredBounds : ~Startup(program, m).raised}}
    /\ active_downloads = 0
    /\ worker = [j \in Ids |-> "none"]
    /\ zombies = [j \in Ids |-> 0]
    /\ failures = [j \in Ids |-> 0]
    /\ last_cancel = <<>>
    /\ cancels = 0
    /\ now = 0
    /\ timer = [j \in Ids |-> 0]
    /\ wake = [j \in Ids |-> 0]
    /\ last_create = <<>>
    /\ order = <<>>
    /\ disk = AbsentFile
    /\ tmp = AbsentFile
    /\ saver = [s \in Ids |-> IdleSaver]
    /\ boots = 0
    /\ video_info_cache = <<>>
    /\ lookup = [u \in Urls |-> "none"]
    /\ reply = NoReply
    /\ FFMPEG_AVAILABLE = TRUE
    /\ DOWNLOAD_DIR = "d0"
    /\ ydl_opts = [j \in Ids |-> NoOpts]
    /\ active_connections = <<>>
    /\ bcast = [b \in Events |-> IdleBroadcast]
    /\ inbox = [c \in Subscribers |-> <<>>]
    /\ dead = {}

SpecStartup == InitStartup /\ [][SlotsNext]_vars

\* C32: a process configured with a bound below 1 does not come up, so in no
\* reachable state is a job in the registry while the semaphore has no slot at
\* all (none free and none held by a task).
C32_NoJobsUnderZeroBound ==
    Created # {} => sem_value + Cardinality({j \in Created : HoldsSlot(j)}) >= 1

\* ------------------------------------------- scenario: clearing the registry
\* the jobs whose record clear_downloads removed while their task lives on
Removed == {j \in Ids : j \notin Created /\ task[j] \notin {"none", "done", "crashed"}}

\* clear_downloads: the registry is emptied and the empty history is saved;
\* the tasks and worker threads of the removed jobs keep running
clear_downloads ==
    /\ program = "main"
    /\ downloads' = <<>>
    /\ order' = <<>>
    /\ disk' = JsonDump(history_data(<<>>, <<>>))
    /\ UNCHANGED <<program, cachevars, confvars, wsvars, tmp, saver, boots, now, timer,
                   wake, last_create, request, task, waiters, sem_value,
                   active_downloads, worker, zombies, failures, last_cancel, cancels>>

\* process_download of a removed job enters the semaphore section: the status
\* test raises KeyError, the handler raises it again, finally and the
\* semaphore exit run before any await
lost_acquire(j) ==
    /\ program = "main"
    /\ j \notin Created
    /\ task[j] = "acquire"
    /\ waiters # <<>> /\ Head(waiters) = j
    /\ sem_value > 0
    /\ waiters' = Tail(waiters)
    /\ task' = [task EXCEPT ![j] = "crashed"]
    /\ UNCHANGED <<program, cachevars, confvars, wsvars, storevars, now, timer, wake,
                   last_create, downloads, request, sem_value, active_downloads,
                   worker, zombies, failures, last_cancel, cancels>>

\* DownloadProgress.__call__ for a removed job: the cancellation check is
\* skipped and the write to downloads[download_id] raises KeyError in the thread
lost_hook(j) ==
    /\ program = "main"
    /\ j \notin Created
    /\ worker[j] = "running"
    /\ worker' = [worker EXCEPT ![j] = "raised"]
    /\ UNCHANGED <<program, cachevars, confvars, wsvars, storevars, now, timer, wake,
                   last_create, downloads, request, task, waiters, sem_value,
                   active_downloads, zombies, failures, last_cancel, cancels>>

\* a faulty exit of a removed job's task that leaves the semaphore section
\* without the finally block and the semaphore exit
lost_result_NoRelease(j) ==
    /\ program = "main"
    /\ j \notin Created
    /\ task[j] = "executor"
    /\ worker[j] \in {"returned", "raised", "raised_cancelled"}
    /\ worker' = [worker EXCEPT ![j] = "none"]
    /\ task' = [task EXCEPT ![j] = "crashed"]
    /\ UNCHANGED <<program, cachevars, confvars, wsvars, storevars, now, timer, wake,
                   last_create, downloads, request, waiters, sem_value,
                   active_downloads, zombies, failures, last_cancel, cancels>>

\* process_download of a removed job when the executor future is done: the
\* next read of downloads[download_id], in the try body or in a handler,
\* raises KeyError; finally decrements and the semaphore is released
lost_result(j) ==
    /\ program = "main"
    /\ j \notin Created
    /\ task[j] = "executor"
    /\ worker[j] \in {"returned", "raised", "raised_cancelled"}
    /\ worker' = [worker EXCEPT ![j] = "none"]
    /\ task' = [task EXCEPT ![j] = "crashed"]
    /\ ReleaseSlot
    /\ UNCHANGED <<program, cachevars, confvars, wsvars, storevars, now, timer, wake,
                   last_create, downloads, request, waiters, zombies, failures,
                   last_cancel, cancels>>

\* main.py with jobs that run, fail, retry and are cancelled while the
\* registry is cleared; requests arrive before the first removal
ClearNext ==
    \/ \E req \in RetryRequests : MoreJobs /\ Removed = {} /\ create_download(req)
    \/ clear_downloads
    \/ \E j \in Created : process_acquire(j)
    \/ \E j \in Created : \E phase \in {"hook_downloading", "hook_finished"} :
          hook_check(j, phase)
    \/ \E j \in Created, d \in JobSamples : hook_write(j, d)
    \/ \E j \in Created : process_result(j)
    \/ \E j \in Created : cancel_download(j)
    \/ \E j \in Created \cup Removed : process_start(j)
    \/ \E j \in Created \cup Removed : worker_returns(j)
    \/ \E j \in Created \cup Removed : worker_raises(j)
    \/ \E j \in Created \cup Removed : process_retry(j)
    \/ \E j \in Created \cup Removed : process_end(j)
    \/ \E j \in Removed : lost_acquire(j)
    \/ \E j \in Removed : lost_hook(j)
    \/ \E j \in Removed : lost_result(j)

SpecClear == InitMain /\ [][ClearNext]_vars

\* C37: active_downloads is the number of process_download tasks inside the
\* semaphore section and lies in 0..MAX_CONCURRENT_DOWNLOADS, and the
\* semaphore's free slots are the rest: every task that took a slot gives it
\* back and decrements once, whatever its exit, a job removed by
\* clear_downloads included.
C37_CounterMatchesSlots ==
    /\ active_downloads = Cardinality({j \in Ids : HoldsSlot(j)})
    /\ active_downloads >= 0
    /\ active_downloads <= MAX_CONCURRENT_DOWNLOADS
    /\ sem_value = MAX_CONCURRENT_DOWNLOADS - active_downloads

\* C37 witness: the task of a job that clear_downloads removed while it ran
\* has left the semaphore section through KeyError, and no slot is held.
C37_Witness ==
    /\ active_downloads = 0
    /\ \E j \in Ids \ Created :
          task[j] = "crashed" /\ ydl_opts[j] # NoOpts /\ request[j].auto_retry
====
